---- MODULE Spec2Model ----
(***************************************************************************)
(* Model of the buddy-system page allocator (src/buddysystem.c).           *)
(* Page descriptors are addressed by their index in the descriptor array;  *)
(* a free-area list is the sequence of block heads from free_list.next     *)
(* onwards.                                                                *)
(***************************************************************************)
EXTENDS Integers, Sequences, FiniteSets, TLC

\* ------------------------------------------------------------------------
\* Bounds of the model.
\* ------------------------------------------------------------------------
\* MAX_BUDDYSYSTEM_GFP_ORDER, scaled down (set in mem/buddysystem.h).
MAX_ORDER == 3
\* Largest pages_count handed to buddy_system_init.
MaxPages == 8
\* sizeof(bb_page_t) in bytes, scaled down.
DescSize == 2
\* pages_stride ranges over DescSize .. DescSize + MaxStrideExtra.
MaxStrideExtra == 1
\* Calls of bb_free_pages that complete, per run (each one lowers nr_free
\* against the list length, so the counters are unbounded without it).
MaxFrees == 2
\* Max-order blocks of the instance the cache runs on.
CacheBlocks == 11
\* Calls of bb_free_page_cached per run.
MaxCachedFrees == 2
\* Max-order blocks of the instance whose cache is fed with single pages
\* that came from bb_alloc_pages.
FillBlocks == 18
\* Single pages from bb_alloc_pages the caller holds at a time.
MaxSingles == 1
\* Calls of bb_alloc_page_cached while the caller feeds the cache.
MaxTaken == 1
\* Tasks linked in the run queue at most; the largest vruntime a task starts
\* with; the ticks at the start and the ticks the timer is followed up to.
MaxTasks == 3
MaxVruntime == 2
MaxTicks == 3
\* The longest slice of a CFS run, and the ticks such a run is followed up to.
MaxSlice == 2
MaxRunTicks == 8
\* The ticks when the scheduler is first called, and the period of the
\* periodic tasks.
Now0 == MaxTicks - 1
Period0 == MaxTicks - 1

\* ------------------------------------------------------------------------
\* Program constants.
\* ------------------------------------------------------------------------
FREE_PAGE == 0
ROOT_PAGE == 1
PAGE_SIZE == 4096
LOW_WATERMARK_LEVEL == 10
HIGH_WATERMARK_LEVEL == 70
MID_WATERMARK_LEVEL == (LOW_WATERMARK_LEVEL + HIGH_WATERMARK_LEVEL) \div 2

\* A null page pointer.
NULL == -1
\* The order field of a descriptor that was never written.
Undef == -1

Orders == 0 .. (MAX_ORDER - 1)

RECURSIVE Pow2(_)
Pow2(n) == IF n = 0 THEN 1 ELSE 2 * Pow2(n - 1)

RECURSIVE BitAnd(_, _)
BitAnd(a, b) ==
    IF a = 0 \/ b = 0 THEN 0
    ELSE (a % 2) * (b % 2) + 2 * BitAnd(a \div 2, b \div 2)

RECURSIVE BitXor(_, _)
BitXor(a, b) ==
    IF a = 0 THEN b
    ELSE IF b = 0 THEN a
    ELSE ((a + b) % 2) + 2 * BitXor(a \div 2, b \div 2)

\* list_head_remove: unlink one node from the list it is in.
Remove(s, x) == SelectSeq(s, LAMBDA y : y # x)

Range(s) == {s[i] : i \in 1 .. Len(s)}

\* ------------------------------------------------------------------------
\* Flags of a descriptor: the set of bit positions that are set.
\* ------------------------------------------------------------------------
bb_set_flag(I, page, flag) ==
    IF page \in DOMAIN I.flags
    THEN [I EXCEPT !.flags[page] = @ \cup {flag}]
    ELSE I

bb_clear_flag(I, page, flag) ==
    IF page \in DOMAIN I.flags
    THEN [I EXCEPT !.flags[page] = @ \ {flag}]
    ELSE I

bb_test_flag(I, page, flag) == page \in DOMAIN I.flags /\ flag \in I.flags[page]

get_buddy_at_index(page_idx, order) == BitXor(page_idx, Pow2(order))

\* __page_is_buddy that never finds a buddy.
page_is_buddy_never(I, page, order) == {FALSE}

\* The values __page_is_buddy can return: comparing an order field that was
\* never written can go either way.
page_is_buddy(I, page, order) ==
    IF ~bb_test_flag(I, page, FREE_PAGE) THEN {FALSE}
    ELSE IF I.order[page] = Undef THEN BOOLEAN
    ELSE {I.order[page] = order}

\* ------------------------------------------------------------------------
\* buddy_system_init
\* ------------------------------------------------------------------------
\* The loop over max-order blocks. page and last_page are byte addresses
\* relative to base_page; page + block_size is arithmetic on bb_page_t *.
\* It ends in the instance and the address the walk stopped at.
RECURSIVE init_loop(_, _)
init_loop(I, page) ==
    LET max_order  == MAX_ORDER - 1
        block_size == Pow2(max_order)
        last_page  == I.pgs_size * I.size
        idx        == page \div I.pgs_size
    IN  IF page + block_size * DescSize <= last_page
        THEN LET I1 == IF idx \in DOMAIN I.order
                       THEN [I EXCEPT !.order[idx] = max_order]
                       ELSE I
                 I2 == bb_set_flag(I1, idx, ROOT_PAGE)
                 I3 == [I2 EXCEPT
                           !.free_list[max_order] = Append(@, idx),
                           !.nr_free[max_order] = @ + 1]
             IN  init_loop(I3, page + I.pgs_size * block_size)
        ELSE [inst |-> I, page |-> page]

\* The initial state of the single-page cache: the enclosing zone sets it
\* up; empty, with a zero counter.
cache_init(I) == [I EXCEPT !.free_pages_cache_list = <<>>,
                           !.free_pages_cache_size = 0]

\* buddy_system_init with the final assertion weakened to page <= last_page.
buddy_system_init_weak_assert(pages_stride, pages_count) ==
    LET I0 == [ size      |-> pages_count,
                pgs_size  |-> pages_stride,
                flags     |-> [i \in 0 .. (pages_count - 1) |-> {FREE_PAGE}],
                order     |-> [i \in 0 .. (pages_count - 1) |-> Undef],
                free_list |-> [k \in Orders |-> <<>>],
                nr_free   |-> [k \in Orders |-> 0],
                free_pages_cache_list |-> <<>>,
                free_pages_cache_size |-> 0 ]
        r  == init_loop(cache_init(I0), 0)
    IN  [inst |-> r.inst, panic |-> ~(r.page <= pages_stride * pages_count)]

buddy_system_init(pages_stride, pages_count) ==
    LET I0 == [ size      |-> pages_count,
                pgs_size  |-> pages_stride,
                flags     |-> [i \in 0 .. (pages_count - 1) |-> {FREE_PAGE}],
                order     |-> [i \in 0 .. (pages_count - 1) |-> Undef],
                free_list |-> [k \in Orders |-> <<>>],
                nr_free   |-> [k \in Orders |-> 0],
                free_pages_cache_list |-> <<>>,
                free_pages_cache_size |-> 0 ]
        r  == init_loop(cache_init(I0), 0)
    IN  [inst |-> r.inst, panic |-> ~(r.page = pages_stride * pages_count)]

\* ------------------------------------------------------------------------
\* bb_alloc_pages
\* ------------------------------------------------------------------------
\* The upward scan: the first order >= order whose list is not empty, or
\* MAX_ORDER when there is none.
RECURSIVE alloc_scan(_, _)
alloc_scan(I, current_order) ==
    IF current_order >= MAX_ORDER THEN MAX_ORDER
    ELSE IF I.free_list[current_order] # <<>> THEN current_order
    ELSE alloc_scan(I, current_order + 1)

\* The split loop: hand the upper half of the block to the lower area.
RECURSIVE alloc_split(_, _, _, _, _)
alloc_split(I, page, current_order, size, order) ==
    IF current_order > order
    THEN LET co    == current_order - 1
             sz    == size \div 2
             buddy == page + sz
         IN  IF ~(bb_test_flag(I, buddy, FREE_PAGE) /\ ~bb_test_flag(I, buddy, ROOT_PAGE))
             THEN [inst |-> I, ret |-> NULL, panic |-> TRUE]
             ELSE LET I1 == [I EXCEPT !.order[buddy] = co]
                      I2 == bb_set_flag(I1, buddy, ROOT_PAGE)
                      I3 == [I2 EXCEPT !.free_list[co] = <<buddy>> \o @,
                                       !.nr_free[co] = @ + 1]
                  IN  alloc_split(I3, page, co, sz, order)
    ELSE [inst |-> [I EXCEPT !.order[page] = order], ret |-> page, panic |-> FALSE]

\* bb_alloc_pages that lowers nr_free of the requested order before it
\* knows a block was found.
bb_alloc_pages_early_dec(I, order) ==
    LET current_order == alloc_scan(I, order)
    IN  IF current_order >= MAX_ORDER
        THEN [inst |-> [I EXCEPT !.nr_free[order] = @ - 1], ret |-> NULL, panic |-> FALSE]
        ELSE LET page == Head(I.free_list[current_order])
                 I1   == [I EXCEPT !.free_list[current_order] = Tail(@),
                                   !.nr_free[current_order] = @ - 1]
             IN  IF ~(bb_test_flag(I1, page, FREE_PAGE) /\ bb_test_flag(I1, page, ROOT_PAGE))
                 THEN [inst |-> I1, ret |-> NULL, panic |-> TRUE]
                 ELSE alloc_split(bb_clear_flag(I1, page, FREE_PAGE), page,
                                  current_order, Pow2(current_order), order)

\* bb_alloc_pages that leaves the block it hands out linked in its area.
bb_alloc_pages_no_unlink(I, order) ==
    LET current_order == alloc_scan(I, order)
    IN  IF current_order >= MAX_ORDER
        THEN [inst |-> I, ret |-> NULL, panic |-> FALSE]
        ELSE LET page == Head(I.free_list[current_order])
                 I1   == [I EXCEPT !.nr_free[current_order] = @ - 1]
             IN  IF ~(bb_test_flag(I1, page, FREE_PAGE) /\ bb_test_flag(I1, page, ROOT_PAGE))
                 THEN [inst |-> I1, ret |-> NULL, panic |-> TRUE]
                 ELSE alloc_split(bb_clear_flag(I1, page, FREE_PAGE), page,
                                  current_order, Pow2(current_order), order)

\* bb_alloc_pages that takes the last block of the area, not the first.
bb_alloc_pages_take_last(I, order) ==
    LET current_order == alloc_scan(I, order)
    IN  IF current_order >= MAX_ORDER
        THEN [inst |-> I, ret |-> NULL, panic |-> FALSE]
        ELSE LET list == I.free_list[current_order]
                 page == list[Len(list)]
                 I1   == [I EXCEPT !.free_list[current_order] = SubSeq(@, 1, Len(@) - 1),
                                   !.nr_free[current_order] = @ - 1]
             IN  IF ~(bb_test_flag(I1, page, FREE_PAGE) /\ bb_test_flag(I1, page, ROOT_PAGE))
                 THEN [inst |-> I1, ret |-> NULL, panic |-> TRUE]
                 ELSE alloc_split(bb_clear_flag(I1, page, FREE_PAGE), page,
                                  current_order, Pow2(current_order), order)

bb_alloc_pages(I, order) ==
    LET current_order == alloc_scan(I, order)
    IN  IF current_order >= MAX_ORDER
        THEN [inst |-> I, ret |-> NULL, panic |-> FALSE]
        ELSE LET page == Head(I.free_list[current_order])
                 I1   == [I EXCEPT !.free_list[current_order] = Tail(@),
                                   !.nr_free[current_order] = @ - 1]
             IN  IF ~(bb_test_flag(I1, page, FREE_PAGE) /\ bb_test_flag(I1, page, ROOT_PAGE))
                 THEN [inst |-> I1, ret |-> NULL, panic |-> TRUE]
                 ELSE alloc_split(bb_clear_flag(I1, page, FREE_PAGE), page,
                                  current_order, Pow2(current_order), order)

\* ------------------------------------------------------------------------
\* bb_free_pages
\* ------------------------------------------------------------------------
\* The check of bb_free_pages without its FREE_PAGE half.
is_double_free_root_only(I, page) == ~bb_test_flag(I, page, ROOT_PAGE)

\* The check at the head of bb_free_pages.
is_double_free(I, page) ==
    bb_test_flag(I, page, FREE_PAGE) \/ ~bb_test_flag(I, page, ROOT_PAGE)

\* What follows the merge loop: the coalesced block goes to its area.
free_insert(I, page_idx, order) ==
    LET I1 == bb_set_flag(bb_set_flag(I, page_idx, ROOT_PAGE), page_idx, ROOT_PAGE)
        I2 == [I1 EXCEPT !.order[page_idx] = order]
    IN  [I2 EXCEPT !.free_list[order] = <<page_idx>> \o @]

\* The merge loop; the set of instances it can end in.
RECURSIVE free_merge(_, _, _)
free_merge(I, page_idx, order) ==
    IF order < MAX_ORDER - 1
    THEN LET buddy_idx == get_buddy_at_index(page_idx, order)
             is_buddy  == page_is_buddy(I, buddy_idx, order)
             I1 == [I EXCEPT
                       !.free_list = [k \in Orders |-> Remove(@[k], buddy_idx)],
                       !.nr_free[order] = @ - 1]
             I2 == bb_clear_flag(I1, buddy_idx, ROOT_PAGE)
             I3 == bb_clear_flag(I2, page_idx, ROOT_PAGE)
         IN  (IF FALSE \in is_buddy THEN {free_insert(I, page_idx, order)} ELSE {})
             \cup
             (IF TRUE \in is_buddy
              THEN free_merge(I3, BitAnd(page_idx, buddy_idx), order + 1)
              ELSE {})
    ELSE {free_insert(I, page_idx, order)}

\* The outcomes of bb_free_pages.
bb_free_pages(I, page) ==
    IF is_double_free(I, page)
    THEN {[inst |-> I, panic |-> TRUE]}
    ELSE {[inst |-> J, panic |-> FALSE] :
            J \in free_merge(bb_set_flag(I, page, FREE_PAGE), page, I.order[page])}

\* ------------------------------------------------------------------------
\* Introspection
\* ------------------------------------------------------------------------
\* Byte counts are kept in units of PAGE_SIZE: every term of the C sums is a
\* multiple of PAGE_SIZE, so a 32-bit byte count b is (b / PAGE_SIZE) here
\* and wraps at WordPages = 2^32 / PAGE_SIZE.
WordPages == ((2147483647 \div PAGE_SIZE) + 1) * 2

RECURSIVE free_space_sum(_, _)
free_space_sum(I, order) ==
    IF order >= MAX_ORDER THEN 0
    ELSE (I.nr_free[order] * Pow2(order) + free_space_sum(I, order + 1)) % WordPages

buddy_system_get_free_space(I) == free_space_sum(I, 0)

buddy_system_get_total_space(I) == I.size % WordPages

\* The loop adds the cache size once per order.
RECURSIVE cached_space_sum(_, _)
cached_space_sum(I, order) ==
    IF order >= MAX_ORDER THEN 0
    ELSE (I.free_pages_cache_size + cached_space_sum(I, order + 1)) % WordPages

buddy_system_get_cached_space(I) == cached_space_sum(I, 0)

\* ------------------------------------------------------------------------
\* Single-page cache
\* ------------------------------------------------------------------------
\* The descriptor list_entry computes from a null list node: not a page.
BadPage == -2

\* list_head_pop: unlink and return the first node; NULL when the list is
\* empty.
list_head_pop(list) ==
    IF list = <<>>
    THEN [list |-> list, node |-> NULL]
    ELSE [list |-> Tail(list), node |-> Head(list)]

\* list_entry on the node list_head_pop returned.
list_entry(node) == IF node = NULL THEN BadPage ELSE node

RECURSIVE cache_extend(_, _)
cache_extend(I, count) ==
    IF count <= 0 THEN [inst |-> I, panic |-> FALSE]
    ELSE LET r == bb_alloc_pages(I, 0)
         IN  IF r.panic \/ r.ret = NULL
             THEN [inst |-> r.inst, panic |-> TRUE]
             ELSE cache_extend(
                      [r.inst EXCEPT
                          !.free_pages_cache_list = <<r.ret>> \o @,
                          !.free_pages_cache_size = @ + 1],
                      count - 1)

\* The outcomes of __cache_shrink.
RECURSIVE cache_shrink(_, _)
cache_shrink(I, count) ==
    IF count <= 0 THEN {[inst |-> I, panic |-> FALSE]}
    ELSE LET pop  == list_head_pop(I.free_pages_cache_list)
             page == list_entry(pop.node)
             I1   == [I EXCEPT !.free_pages_cache_list = pop.list]
         IN  IF page = BadPage
             THEN {[inst |-> I1, panic |-> TRUE]}
             ELSE UNION { IF f.panic
                          THEN {[inst |-> f.inst, panic |-> TRUE]}
                          ELSE cache_shrink(
                                   [f.inst EXCEPT !.free_pages_cache_size = @ - 1],
                                   count - 1)
                          : f \in bb_free_pages(I1, page) }

cached_alloc(I) ==
    LET e == IF I.free_pages_cache_size < LOW_WATERMARK_LEVEL
             THEN cache_extend(I, MID_WATERMARK_LEVEL - I.free_pages_cache_size)
             ELSE [inst |-> I, panic |-> FALSE]
        pop == list_head_pop(e.inst.free_pages_cache_list)
    IN  IF e.panic
        THEN [inst |-> e.inst, ret |-> NULL, panic |-> TRUE]
        ELSE [inst  |-> [e.inst EXCEPT !.free_pages_cache_list = pop.list],
              ret   |-> list_entry(pop.node),
              panic |-> FALSE]

\* The outcomes of __cached_free.
cached_free(I, page) ==
    LET I1 == [I EXCEPT !.free_pages_cache_list = <<page>> \o @]
    IN  IF I1.free_pages_cache_size > HIGH_WATERMARK_LEVEL
        THEN cache_shrink(I1, I1.free_pages_cache_size - MID_WATERMARK_LEVEL)
        ELSE {[inst |-> I1, panic |-> FALSE]}

bb_alloc_page_cached(I) == cached_alloc(I)

bb_free_page_cached(I, page) == cached_free(I, page)

\* ------------------------------------------------------------------------
\* Scheduler (src/scheduler_algorithm.c)
\* ------------------------------------------------------------------------
\* A run queue R is [policy, queue, curr, ticks, task, pc, ret, panic]:
\* queue is the sequence of the tasks linked in runqueue->queue, from
\* queue.next onwards, task maps a task to its task_struct, ticks is
\* timer_get_ticks(). A time_t is an unsigned 32-bit word; it is kept as the
\* integer with the same bit pattern in two's complement (UINT_MAX is -1),
\* so that sums and differences of small values are the plain ones and only
\* the comparisons need the unsigned order.
TASK_RUNNING == 0
TASK_INTERRUPTIBLE == 1
UINT_MAX == -1
NICE_0_LOAD == 1024
\* The static priority of nice 0, and the one of nice 1.
DEFAULT_PRIO == 120
LOW_PRIO == 121
\* No task: a null task_struct pointer.
NoTask == 0

\* a < b on a time_t kept as a signed integer.
SLess(a, b) == a < b

\* a < b, a <= b on unsigned words.
ULess(a, b) ==
    IF (a >= 0) = (b >= 0) THEN a < b ELSE a >= 0

\* a <= b written as a < b.
ULeq_strict(a, b) == ULess(a, b)

ULeq(a, b) == a = b \/ ULess(a, b)

\* GET_WEIGHT: the load weight of a static priority (prio_to_weight).
GET_WEIGHT(prio) == IF prio = DEFAULT_PRIO THEN NICE_0_LOAD ELSE 820

is_periodic_task(t) == t.se.is_periodic /\ ~t.se.is_under_analysis

\* list_head_size(&runqueue->curr->run_list): the nodes of the ring other
\* than curr's own, the list head among them.
list_head_size(R) == Len(R.queue)

IndexOf(q, x) == CHOOSE i \in 1 .. Len(q) : q[i] = x

\* list_for_each_decl(it, &runqueue->curr->run_list), the list head left
\* out: the tasks after curr up to the end of the queue, then the tasks from
\* the start of the queue up to curr; curr itself is not visited.
others_from_curr(R) ==
    LET i == IndexOf(R.queue, R.curr)
    IN  SubSeq(R.queue, i + 1, Len(R.queue)) \o SubSeq(R.queue, 1, i - 1)

\* ---- Round-Robin ----
RECURSIVE rr_loop(_, _, _)
rr_loop(R, ids, skip_periodic) ==
    IF ids = <<>> THEN NoTask
    ELSE LET entry == R.task[Head(ids)]
         IN  IF entry.state # TASK_RUNNING
             THEN rr_loop(R, Tail(ids), skip_periodic)
             ELSE IF is_periodic_task(entry) /\ skip_periodic
             THEN rr_loop(R, Tail(ids), skip_periodic)
             ELSE Head(ids)

\* __scheduler_rr that starts its search at the head of the queue.
scheduler_rr_from_head(R, skip_periodic) ==
    IF list_head_size(R) <= 1 THEN R.curr
    ELSE rr_loop(R, R.queue, skip_periodic)

scheduler_rr(R, skip_periodic) ==
    IF list_head_size(R) <= 1 THEN R.curr
    ELSE rr_loop(R, others_from_curr(R), skip_periodic)

\* ---- Static priority ----
RECURSIVE priority_loop(_, _, _, _, _)
priority_loop(R, ids, skip_periodic, next, min) ==
    IF ids = <<>> THEN next
    ELSE LET entry == R.task[Head(ids)]
         IN  IF entry.state # TASK_RUNNING
             THEN priority_loop(R, Tail(ids), skip_periodic, next, min)
             ELSE IF is_periodic_task(entry) /\ skip_periodic
             THEN priority_loop(R, Tail(ids), skip_periodic, next, min)
             ELSE IF ULeq(entry.se.prio, min)
             THEN priority_loop(R, Tail(ids), skip_periodic, Head(ids), entry.se.prio)
             ELSE priority_loop(R, Tail(ids), skip_periodic, next, min)

scheduler_priority(R, skip_periodic) ==
    IF R.policy = "PRIORITY"
    THEN LET next == Head(R.queue)
             min  == R.task[next].se.prio
         IN  IF list_head_size(R) <= 1 THEN R.curr
             ELSE priority_loop(R, others_from_curr(R), skip_periodic, next, min)
    ELSE scheduler_rr(R, skip_periodic)

\* ---- CFS ----
RECURSIVE cfs_loop(_, _, _, _, _)
cfs_loop(R, ids, skip_periodic, next, min) ==
    IF ids = <<>> THEN next
    ELSE LET entry == R.task[Head(ids)]
         IN  IF entry.state # TASK_RUNNING
             THEN cfs_loop(R, Tail(ids), skip_periodic, next, min)
             ELSE IF is_periodic_task(entry) /\ skip_periodic
             THEN cfs_loop(R, Tail(ids), skip_periodic, next, min)
             ELSE IF ULess(entry.se.vruntime, min)
             THEN cfs_loop(R, Tail(ids), skip_periodic, Head(ids), entry.se.vruntime)
             ELSE cfs_loop(R, Tail(ids), skip_periodic, next, min)

scheduler_cfs(R, skip_periodic) ==
    LET next == Head(R.queue)
        min  == R.task[next].se.vruntime
    IN  IF list_head_size(R) <= 1 THEN R.curr
        ELSE cfs_loop(R, others_from_curr(R), skip_periodic, next, min)

\* ---- AEDF ----
RECURSIVE aedf_loop(_, _, _, _)
aedf_loop(R, ids, next, next_dl) ==
    IF ids = <<>> THEN next
    ELSE LET entry == R.task[Head(ids)]
         IN  IF entry.se.deadline # 0 /\ ULeq(entry.se.deadline, next_dl)
             THEN aedf_loop(R, Tail(ids), Head(ids), entry.se.deadline)
             ELSE aedf_loop(R, Tail(ids), next, next_dl)

\* The pickers below end in [rq |-> the run queue as they leave it,
\* next |-> the task they return].
scheduler_aedf(R) ==
    LET next == aedf_loop(R, R.queue, NoTask, UINT_MAX)
    IN  [rq   |-> R,
         next |-> IF next = NoTask THEN scheduler_cfs(R, TRUE) ELSE next]

\* A new period that moves the deadline and leaves next_period behind.
period_rollover_deadline_only(t) ==
    [t EXCEPT !.se.executed = FALSE,
              !.se.deadline = @ + t.se.period]

\* The start of a new period of a task that was executed.
period_rollover(t) ==
    [t EXCEPT !.se.executed = FALSE,
              !.se.deadline = @ + t.se.period,
              !.se.next_period = @ + t.se.period]

\* ---- EDF ----
RECURSIVE edf_loop(_, _, _, _)
edf_loop(R, ids, next, next_dl) ==
    IF ids = <<>> THEN [rq |-> R, next |-> next]
    ELSE LET e     == Head(ids)
             entry == R.task[e]
         IN  IF ~entry.se.is_periodic \/ entry.se.is_under_analysis
             THEN edf_loop(R, Tail(ids), next, next_dl)
             ELSE IF entry.se.executed /\ ULeq(entry.se.next_period, R.ticks)
             THEN edf_loop([R EXCEPT !.task[e] = period_rollover(entry)],
                           Tail(ids), next, next_dl)
             ELSE IF ~entry.se.executed /\ ULess(entry.se.deadline, next_dl)
             THEN edf_loop(R, Tail(ids), e, entry.se.deadline)
             ELSE edf_loop(R, Tail(ids), next, next_dl)

scheduler_edf(R) ==
    LET r == edf_loop(R, R.queue, NoTask, UINT_MAX)
    IN  [rq   |-> r.rq,
         next |-> IF r.next = NoTask THEN scheduler_cfs(r.rq, TRUE) ELSE r.next]

\* ---- RM ----
RECURSIVE rm_loop(_, _, _, _)
rm_loop(R, ids, next, next_np) ==
    IF ids = <<>> THEN [rq |-> R, next |-> next]
    ELSE LET e     == Head(ids)
             entry == R.task[e]
         IN  IF ~entry.se.is_periodic \/ entry.se.is_under_analysis
             THEN rm_loop(R, Tail(ids), next, next_np)
             ELSE IF entry.se.executed /\ ULeq(entry.se.next_period, R.ticks)
             THEN rm_loop([R EXCEPT !.task[e] = period_rollover(entry)],
                          Tail(ids), next, next_np)
             ELSE IF ~entry.se.executed /\ ULess(entry.se.next_period, next_np)
             THEN rm_loop(R, Tail(ids), e, entry.se.next_period)
             ELSE rm_loop(R, Tail(ids), next, next_np)

scheduler_rm(R) ==
    LET r == rm_loop(R, R.queue, NoTask, UINT_MAX)
    IN  [rq   |-> r.rq,
         next |-> IF r.next = NoTask THEN scheduler_cfs(r.rq, TRUE) ELSE r.next]

\* ---- LLF ----
\* int this_lax, compared with the time_t min_lax as an unsigned word.
this_lax(R, entry) == (entry.se.deadline - R.ticks) - entry.se.sum_exec_runtime

RECURSIVE llf_loop(_, _, _, _)
llf_loop(R, ids, next, min_lax) ==
    IF ids = <<>> THEN [rq |-> R, next |-> next]
    ELSE LET e     == Head(ids)
             entry == R.task[e]
         IN  IF ~entry.se.is_periodic \/ entry.se.is_under_analysis
             THEN llf_loop(R, Tail(ids), next, min_lax)
             ELSE IF entry.se.executed /\ ULeq(entry.se.next_period, R.ticks)
             THEN llf_loop([R EXCEPT !.task[e] = period_rollover(entry)],
                           Tail(ids), next, min_lax)
             ELSE IF ~entry.se.executed /\ ULess(this_lax(R, entry), min_lax)
             THEN llf_loop(R, Tail(ids), e, this_lax(R, entry))
             ELSE llf_loop(R, Tail(ids), next, min_lax)

scheduler_llf(R) ==
    LET r == llf_loop(R, R.queue, NoTask, UINT_MAX)
    IN  [rq   |-> r.rq,
         next |-> IF r.next = NoTask THEN scheduler_cfs(r.rq, TRUE) ELSE r.next]

\* ---- Statistics ----
\* __update_task_statistics without the test of is_periodic.
update_task_statistics_all_vruntime(R) ==
    LET task  == R.task[R.curr]
        delta == R.ticks - task.se.exec_start
    IN  [R EXCEPT !.task[R.curr].se.exec_runtime = delta,
                  !.task[R.curr].se.sum_exec_runtime = @ + delta,
                  !.task[R.curr].se.vruntime = @ + delta]

update_task_statistics(R) ==
    LET task   == R.task[R.curr]
        delta  == R.ticks - task.se.exec_start
        weight == GET_WEIGHT(task.se.prio)
        scaled == IF weight # NICE_0_LOAD
                  THEN (delta * NICE_0_LOAD) \div weight
                  ELSE delta
    IN  IF task.se.is_periodic
        THEN [R EXCEPT !.task[R.curr].se.exec_runtime = delta,
                       !.task[R.curr].se.sum_exec_runtime = @ + delta]
        ELSE [R EXCEPT !.task[R.curr].se.exec_runtime = scaled,
                       !.task[R.curr].se.sum_exec_runtime = @ + delta,
                       !.task[R.curr].se.vruntime = @ + scaled]

UpdatesStatistics(policy) == policy \in {"CFS", "EDF", "RM", "AEDF", "LLF"}

\* ---- scheduler_pick_next_task ----
\* The policy function the build selects.
pick_dispatch(R) ==
    CASE R.policy = "RR"       -> [rq |-> R, next |-> scheduler_rr(R, FALSE)]
      [] R.policy = "PRIORITY" -> [rq |-> R, next |-> scheduler_priority(R, FALSE)]
      [] R.policy = "CFS"      -> [rq |-> R, next |-> scheduler_cfs(R, FALSE)]
      [] R.policy = "EDF"      -> scheduler_edf(R)
      [] R.policy = "RM"       -> scheduler_rm(R)
      [] R.policy = "AEDF"     -> scheduler_aedf(R)
      [] R.policy = "LLF"      -> scheduler_llf(R)

scheduler_pick_next_task(R) ==
    LET R1 == IF UpdatesStatistics(R.policy) THEN update_task_statistics(R) ELSE R
        r  == pick_dispatch(R1)
    IN  IF r.next = NoTask
        THEN [r.rq EXCEPT !.ret = NoTask, !.panic = TRUE]
        ELSE [r.rq EXCEPT !.task[r.next].se.exec_start = R.ticks,
                          !.ret = r.next]

\* ------------------------------------------------------------------------
\* State
\* ------------------------------------------------------------------------
VARIABLES
    inst,       \* the bb_instance_t
    panicked,   \* kernel_panic or a failed assert has stopped the kernel
    held,       \* blocks handed out and not given back: <<head, order>>
    last,       \* the last call: what was asked and what came back
    taken,      \* pages bb_alloc_page_cached handed out, oldest first
    ncfrees,    \* calls of bb_free_page_cached so far
    rq          \* the runqueue_t, its tasks and the scheduler's caller

vars == <<inst, panicked, held, last, taken, ncfrees, rq>>

\* The allocator's part of the state, and the value of rq before the
\* scheduler is set up.
mem_vars == <<inst, panicked, held, last, taken, ncfrees>>
NoRunqueue == [policy |-> "NONE"]

\* Blocks linked in the free areas beyond what the nr_free counters say.
RECURSIVE Deficit(_, _)
Deficit(I, order) ==
    IF order >= MAX_ORDER THEN 0
    ELSE Len(I.free_list[order]) - I.nr_free[order] + Deficit(I, order + 1)

Strides == DescSize .. (DescSize + MaxStrideExtra)

\* The kernel calls buddy_system_init once, at boot.
Init ==
    \E pages_count \in 0 .. MaxPages, pages_stride \in Strides :
        LET r == buddy_system_init(pages_stride, pages_count)
        IN  /\ inst = r.inst
            /\ panicked = r.panic
            /\ held = {}
            /\ last = [op |-> "init", arg |-> pages_count, ret |-> NULL]
            /\ taken = <<>>
            /\ ncfrees = 0
            /\ rq = NoRunqueue

AllocPages(order) ==
    /\ ~panicked
    /\ LET r == bb_alloc_pages(inst, order)
       IN  /\ inst' = r.inst
           /\ panicked' = r.panic
           /\ held' = IF r.ret # NULL THEN held \cup {<<r.ret, order>>} ELSE held
           /\ last' = [op |-> "alloc", arg |-> order, ret |-> r.ret]
    /\ UNCHANGED <<taken, ncfrees, rq>>

FreePages(page) ==
    /\ ~panicked
    /\ \E r \in bb_free_pages(inst, page) :
        /\ r.panic \/ Deficit(inst, 0) < MaxFrees
        /\ inst' = r.inst
        /\ panicked' = r.panic
        /\ held' = IF r.panic THEN held ELSE {h \in held : h[1] # page}
        /\ last' = [op |-> "free", arg |-> page, ret |-> NULL]
    /\ UNCHANGED <<taken, ncfrees, rq>>

Next ==
    \/ \E order \in Orders : AllocPages(order)
    \/ \E page \in DOMAIN inst.flags : FreePages(page)

Spec == Init /\ [][Next]_vars

\* ------------------------------------------------------------------------
\* The cache on an instance with room for a refill.
\* ------------------------------------------------------------------------
CachePages == CacheBlocks * Pow2(MAX_ORDER - 1)

InitCache ==
    LET r == buddy_system_init(DescSize, CachePages)
    IN  /\ inst = r.inst
        /\ panicked = r.panic
        /\ held = {}
        /\ last = [op |-> "init", arg |-> CachePages, ret |-> NULL]
        /\ taken = <<>>
        /\ ncfrees = 0
        /\ rq = NoRunqueue

AllocPageCached ==
    /\ ~panicked
    /\ LET r == bb_alloc_page_cached(inst)
       IN  /\ inst' = r.inst
           /\ panicked' = r.panic
           /\ taken' = IF r.ret \in {NULL, BadPage} THEN taken ELSE Append(taken, r.ret)
           /\ last' = [op |-> "alloc_cached", arg |-> NULL, ret |-> r.ret]
    /\ UNCHANGED <<held, ncfrees, rq>>

\* The caller gives back the oldest or the newest page it holds.
FreePageCached(i) ==
    /\ ~panicked
    /\ ncfrees < MaxCachedFrees
    /\ i \in DOMAIN taken
    /\ \E r \in bb_free_page_cached(inst, taken[i]) :
        /\ inst' = r.inst
        /\ panicked' = r.panic
        /\ last' = [op |-> "free_cached", arg |-> taken[i], ret |-> NULL]
    /\ taken' = SubSeq(taken, 1, i - 1) \o SubSeq(taken, i + 1, Len(taken))
    /\ ncfrees' = ncfrees + 1
    /\ UNCHANGED <<held, rq>>

NextCache ==
    \/ AllocPageCached
    \/ \E i \in {1, Len(taken)} : FreePageCached(i)

SpecCache == InitCache /\ [][NextCache]_vars

\* ------------------------------------------------------------------------
\* The cache fed with single pages the caller got from bb_alloc_pages.
\* ------------------------------------------------------------------------
FillPages == FillBlocks * Pow2(MAX_ORDER - 1)

InitFill ==
    LET r == buddy_system_init(DescSize, FillPages)
    IN  /\ inst = r.inst
        /\ panicked = r.panic
        /\ held = {}
        /\ last = [op |-> "init", arg |-> FillPages, ret |-> NULL]
        /\ taken = <<>>
        /\ ncfrees = 0
        /\ rq = NoRunqueue

AllocPageCachedFill ==
    /\ Len(taken) < MaxTaken
    /\ AllocPageCached

AllocSingle ==
    /\ Cardinality(held) < MaxSingles
    /\ AllocPages(0)

FreeSingleCached(page) ==
    /\ ~panicked
    /\ <<page, 0>> \in held
    /\ \E r \in bb_free_page_cached(inst, page) :
        /\ inst' = r.inst
        /\ panicked' = r.panic
        /\ last' = [op |-> "free_cached", arg |-> page, ret |-> NULL]
    /\ held' = held \ {<<page, 0>>}
    /\ UNCHANGED <<taken, ncfrees, rq>>

NextFill ==
    \/ AllocPageCachedFill
    \/ AllocSingle
    \/ \E page \in DOMAIN inst.flags : FreeSingleCached(page)

SpecCacheFill == InitFill /\ [][NextFill]_vars

\* ------------------------------------------------------------------------
\* The scheduler and its caller
\* ------------------------------------------------------------------------
\* The caller keeps at least one task linked, keeps curr linked, and at
\* least one linked task is TASK_RUNNING. Between two picks it makes the
\* task it was given the current one; the timer advances the ticks.
sched_entity0 ==
    [prio |-> DEFAULT_PRIO, vruntime |-> 0, exec_start |-> 0,
     exec_runtime |-> 0, sum_exec_runtime |-> 0,
     is_periodic |-> FALSE, is_under_analysis |-> FALSE,
     period |-> Period0, deadline |-> 0, next_period |-> 0,
     executed |-> FALSE]

task0 == [state |-> TASK_RUNNING, se |-> sched_entity0]

States == {TASK_RUNNING, TASK_INTERRUPTIBLE}

\* Aperiodic tasks for the policies that look at one field only.
PrioTasks ==
    {[task0 EXCEPT !.state = st, !.se.prio = p] :
        st \in States, p \in {DEFAULT_PRIO, LOW_PRIO}}

CfsTasks ==
    {[task0 EXCEPT !.state = st, !.se.vruntime = v] :
        st \in States, v \in 0 .. MaxVruntime}
    \cup {[task0 EXCEPT !.se.prio = LOW_PRIO]}

\* <<deadline, next_period>> of the periodic tasks waiting to run.
PeriodKeys == {<<1, 1>>, <<3, 4>>, <<4, 3>>, <<UINT_MAX, UINT_MAX>>}

RtTasks ==
    \* aperiodic tasks
    {[task0 EXCEPT !.se.vruntime = v] : v \in 0 .. 1}
    \cup {[task0 EXCEPT !.state = TASK_INTERRUPTIBLE]}
    \* a periodic task still under schedulability analysis
    \cup {[task0 EXCEPT !.se.is_periodic = TRUE, !.se.is_under_analysis = TRUE,
                        !.se.deadline = 1, !.se.next_period = 1]}
    \* periodic tasks that have not run in their period
    \cup {[task0 EXCEPT !.se.is_periodic = TRUE,
                        !.se.deadline = k[1], !.se.next_period = k[2]] :
            k \in PeriodKeys}
    \cup {[task0 EXCEPT !.state = TASK_INTERRUPTIBLE, !.se.is_periodic = TRUE,
                        !.se.deadline = 1, !.se.next_period = 1]}
    \* periodic tasks that have run and wait for their next period
    \cup {[task0 EXCEPT !.se.is_periodic = TRUE, !.se.executed = TRUE,
                        !.se.deadline = 1, !.se.next_period = np] :
            np \in {1, 3}}

TaskDomain(policy) ==
    CASE policy \in {"RR", "PRIORITY"} -> PrioTasks
      [] policy = "CFS"                -> CfsTasks
      [] OTHER                         -> RtTasks

InitSched(policies) ==
    /\ inst = NoRunqueue /\ panicked = FALSE /\ held = {}
    /\ last = [op |-> "sched", arg |-> NULL, ret |-> NULL]
    /\ taken = <<>> /\ ncfrees = 0
    /\ \E policy \in policies, n \in 1 .. MaxTasks :
        \E task \in [1 .. n -> TaskDomain(policy)], curr \in 1 .. n,
           start \in {0, Now0} :
            /\ \E t \in 1 .. n : task[t].state = TASK_RUNNING
            /\ start = 0 \/ policy = "CFS"
            /\ rq = [policy |-> policy,
                     queue  |-> [i \in 1 .. n |-> i],
                     curr   |-> curr,
                     ticks  |-> Now0,
                     task   |-> [task EXCEPT ![curr].se.exec_start = start],
                     pc     |-> "run",
                     ret    |-> NoTask,
                     panic  |-> FALSE]

PickNext ==
    /\ rq.pc = "run"
    /\ ~rq.panic
    /\ rq' = [scheduler_pick_next_task(rq) EXCEPT !.pc = "picked"]
    /\ UNCHANGED mem_vars

\* The caller switches to the task it was given.
Switch ==
    /\ rq.pc = "picked"
    /\ ~rq.panic
    /\ rq' = [rq EXCEPT !.curr = rq.ret, !.pc = "run"]
    /\ UNCHANGED mem_vars

Tick ==
    /\ rq.pc = "run"
    /\ rq.ticks < MaxTicks
    /\ rq' = [rq EXCEPT !.ticks = @ + 1]
    /\ UNCHANGED mem_vars

NextSched ==
    \/ PickNext
    \/ Switch
    \/ Tick

SpecRR  == InitSched({"RR"}) /\ [][NextSched]_vars
SpecCFS == InitSched({"CFS"}) /\ [][NextSched]_vars
SpecRT  == InitSched({"EDF", "RM", "LLF"}) /\ [][NextSched]_vars
SpecPrio == InitSched({"PRIORITY"}) /\ [][NextSched]_vars
Policies == {"RR", "PRIORITY", "CFS", "EDF", "RM", "AEDF", "LLF"}

\* One call of the picker under any policy, on any run queue, at the ticks
\* of its set-up or later.
NextOnce ==
    \/ PickNext
    \/ Tick

SpecAll == InitSched(Policies) /\ [][NextOnce]_vars

\* ------------------------------------------------------------------------
\* A CFS run: every task picked is made current and runs for a slice
\* ------------------------------------------------------------------------
\* Aperiodic tasks of the default weight, all RUNNING, their counters at
\* zero; after each pick the caller switches to the task returned, which
\* runs for 1 .. MaxSlice ticks before the next pick.
InitRun ==
    /\ inst = NoRunqueue /\ panicked = FALSE /\ held = {}
    /\ last = [op |-> "sched", arg |-> NULL, ret |-> NULL]
    /\ taken = <<>> /\ ncfrees = 0
    /\ \E n \in 1 .. MaxTasks : \E curr \in 1 .. n :
        rq = [policy |-> "CFS",
              queue  |-> [i \in 1 .. n |-> i],
              curr   |-> curr,
              ticks  |-> 0,
              task   |-> [i \in 1 .. n |-> task0],
              pc     |-> "run",
              ret    |-> NoTask,
              panic  |-> FALSE]

SwitchSlice ==
    /\ rq.pc = "picked"
    /\ ~rq.panic
    /\ rq' = [rq EXCEPT !.curr = rq.ret, !.pc = "slice"]
    /\ UNCHANGED mem_vars

RunSlice(d) ==
    /\ rq.pc = "slice"
    /\ rq.ticks + d <= MaxRunTicks
    /\ rq' = [rq EXCEPT !.ticks = @ + d, !.pc = "run"]
    /\ UNCHANGED mem_vars

NextRun ==
    \/ PickNext
    \/ SwitchSlice
    \/ \E d \in 1 .. MaxSlice : RunSlice(d)

SpecCFSRun == InitRun /\ [][NextRun]_vars

\* ------------------------------------------------------------------------
\* Vocabulary of the properties
\* ------------------------------------------------------------------------
Pages(I) == DOMAIN I.flags

\* The frames of the block of 2^order pages that starts at head.
Frames(head, order) == head .. (head + Pow2(order) - 1)

\* The blocks linked in the free areas: <<head, order of the area>>.
FreeBlocks(I) == UNION {{<<h, k>> : h \in Range(I.free_list[k])} : k \in Orders}

IsFreeRoot(I, page, k) ==
    /\ page \in Pages(I)
    /\ FREE_PAGE \in I.flags[page]
    /\ ROOT_PAGE \in I.flags[page]
    /\ I.order[page] = k

MaxBlock == Pow2(MAX_ORDER - 1)

\* ------------------------------------------------------------------------
\* C1: once every block that bb_alloc_pages returned has been freed, the
\* free space is what it was right after buddy_system_init and every
\* descriptor is FREE.
\* ------------------------------------------------------------------------
C1_Conservation ==
    (~panicked /\ held = {}) =>
        /\ buddy_system_get_free_space(inst)
             = buddy_system_get_free_space(
                   buddy_system_init(inst.pgs_size, inst.size).inst)
        /\ \A p \in Pages(inst) : FREE_PAGE \in inst.flags[p]

\* ------------------------------------------------------------------------
\* C2: once every allocated block has been freed, nr_free is 0 below the
\* top order and size / 2^(MAX_ORDER-1) at the top order.
\* ------------------------------------------------------------------------
C2_MergeCompleteness ==
    (~panicked /\ held = {}) =>
        /\ \A k \in 0 .. (MAX_ORDER - 2) : inst.nr_free[k] = 0
        /\ inst.nr_free[MAX_ORDER - 1] = inst.size \div MaxBlock

\* ------------------------------------------------------------------------
\* C3: after every completed call, nr_free of each order is the number of
\* block heads linked in that order's list, and it is never negative.
\* ------------------------------------------------------------------------
C3_CounterInvariant ==
    ~panicked =>
        \A k \in Orders :
            /\ inst.nr_free[k] = Len(inst.free_list[k])
            /\ inst.nr_free[k] >= 0

\* ------------------------------------------------------------------------
\* C4: the frame ranges of two distinct outstanding blocks are disjoint, and
\* no outstanding block shares a frame with a block linked in a free area.
\* ------------------------------------------------------------------------
C4_NonOverlap ==
    ~panicked =>
        /\ \A a \in held, b \in held :
               a # b => Frames(a[1], a[2]) \cap Frames(b[1], b[2]) = {}
        /\ \A a \in held, f \in FreeBlocks(inst) :
               Frames(a[1], a[2]) \cap Frames(f[1], f[2]) = {}

\* Two blocks of different orders are out, a block has come back, and blocks
\* are linked in the free areas.
C4_Witness ==
    /\ ~panicked
    /\ last.op = "free"
    /\ \E a \in held, b \in held : a[2] < b[2]
    /\ FreeBlocks(inst) # {}

\* ------------------------------------------------------------------------
\* C5 as stated: for every order k < MAX_ORDER, the descriptors at i and
\* i XOR 2^k are never both free ROOTs of order k.
\* ------------------------------------------------------------------------
C5_BuddyExclusionAllOrders ==
    ~panicked =>
        \A k \in Orders : \A i \in Pages(inst) :
            ~(IsFreeRoot(inst, i, k) /\ IsFreeRoot(inst, BitXor(i, Pow2(k)), k))

\* C5 amended: the same for every order k < MAX_ORDER - 1; blocks of the top
\* order are never merged.
C5_BuddyExclusion ==
    ~panicked =>
        \A k \in 0 .. (MAX_ORDER - 2) : \A i \in Pages(inst) :
            ~(IsFreeRoot(inst, i, k) /\ IsFreeRoot(inst, BitXor(i, Pow2(k)), k))

\* A free has just merged a block with its buddy into a block below the top
\* order, on an instance of two max-order blocks.
C5_Witness ==
    /\ ~panicked
    /\ last.op = "free"
    /\ inst.size >= 2 * MaxBlock
    /\ FREE_PAGE \in inst.flags[last.arg]
    /\ ROOT_PAGE \notin inst.flags[last.arg]
    /\ \E k \in 1 .. (MAX_ORDER - 2) :
           IsFreeRoot(inst, BitAnd(last.arg, BitXor(last.arg, Pow2(k - 1))), k)

\* ------------------------------------------------------------------------
\* C6: bb_free_pages on a descriptor that is FREE or not ROOT panics and
\* changes nothing of the instance; a second bb_free_pages of the same block
\* right after the first panics.
\* ------------------------------------------------------------------------
C6_DoubleFreeStep ==
    /\ (/\ last'.op = "free"
        /\ (FREE_PAGE \in inst.flags[last'.arg] \/ ROOT_PAGE \notin inst.flags[last'.arg]))
       => (panicked' /\ inst' = inst)
    /\ (/\ last.op = "free"
        /\ last'.op = "free"
        /\ last'.arg = last.arg)
       => panicked'

C6_DoubleFree == [][C6_DoubleFreeStep]_vars

\* The second free of a block that the first free merged into its buddy.
C6_Witness ==
    /\ panicked
    /\ last.op = "free"
    /\ FREE_PAGE \in inst.flags[last.arg]
    /\ ROOT_PAGE \notin inst.flags[last.arg]
    /\ Deficit(inst, 0) > 0

\* ------------------------------------------------------------------------
\* C7: bb_alloc_pages(order) returns NULL exactly when every free-area list
\* of order >= the request is empty, and then the instance is unchanged.
\* ------------------------------------------------------------------------
C7_ExhaustionStep ==
    (last'.op = "alloc") =>
        /\ (last'.ret = NULL)
             <=> (\A k \in last'.arg .. (MAX_ORDER - 1) : inst.free_list[k] = <<>>)
        /\ (last'.ret = NULL) => (inst' = inst /\ ~panicked')

C7_Exhaustion == [][C7_ExhaustionStep]_vars

\* A failed allocation while smaller blocks are still free.
C7_Witness ==
    /\ ~panicked
    /\ last.op = "alloc"
    /\ last.ret = NULL
    /\ \E k \in 0 .. (last.arg - 1) : inst.free_list[k] # <<>>

\* ------------------------------------------------------------------------
\* C8: a descriptor bb_alloc_pages(order) returns has FREE clear, ROOT set,
\* the requested order, an index that is a multiple of 2^order; its frames
\* lay inside the first block of the lowest non-empty area of order >= the
\* request, and after the call none of them is in a block of a free area.
\* ------------------------------------------------------------------------
LowestNonEmpty(I, order) ==
    CHOOSE k \in order .. (MAX_ORDER - 1) :
        /\ I.free_list[k] # <<>>
        /\ \A j \in order .. (k - 1) : I.free_list[j] = <<>>

C8_AllocSuccessStep ==
    (last'.op = "alloc" /\ last'.ret # NULL) =>
        LET page  == last'.ret
            order == last'.arg
            k     == LowestNonEmpty(inst, order)
        IN  /\ ~panicked'
            /\ FREE_PAGE \notin inst'.flags[page]
            /\ ROOT_PAGE \in inst'.flags[page]
            /\ inst'.order[page] = order
            /\ page % Pow2(order) = 0
            /\ \E j \in order .. (MAX_ORDER - 1) : inst.free_list[j] # <<>>
            /\ Frames(page, order) \subseteq Frames(Head(inst.free_list[k]), k)
            /\ \A f \in FreeBlocks(inst') :
                   Frames(page, order) \cap Frames(f[1], f[2]) = {}

C8_AllocSuccess == [][C8_AllocSuccessStep]_vars

\* An allocation that split a larger block: the upper half of the pair is
\* now a free ROOT of the requested order.
C8_Witness ==
    /\ ~panicked
    /\ last.op = "alloc"
    /\ last.ret # NULL
    /\ last.arg < MAX_ORDER - 1
    /\ IsFreeRoot(inst, last.ret + Pow2(last.arg), last.arg)
    /\ Deficit(inst, 0) > 0

\* ------------------------------------------------------------------------
\* C9: buddy_system_init panics when pages_count is not a multiple of
\* 2^(MAX_ORDER-1); otherwise it completes with nr_free = pages_count /
\* 2^(MAX_ORDER-1) at the top order and 0 below, every descriptor FREE, and
\* ROOT exactly on the multiples of 2^(MAX_ORDER-1).
\* ------------------------------------------------------------------------
C9_InitAlignment ==
    (last.op = "init") =>
        IF last.arg % MaxBlock # 0
        THEN panicked
        ELSE /\ ~panicked
             /\ inst.size = last.arg
             /\ inst.nr_free[MAX_ORDER - 1] = last.arg \div MaxBlock
             /\ \A k \in 0 .. (MAX_ORDER - 2) : inst.nr_free[k] = 0
             /\ \A p \in Pages(inst) :
                    /\ FREE_PAGE \in inst.flags[p]
                    /\ (ROOT_PAGE \in inst.flags[p]) <=> (p % MaxBlock = 0)

\* A non-zero count below one max-order block, with a stride above the
\* descriptor size, was rejected.
C9_Witness ==
    /\ last.op = "init"
    /\ panicked
    /\ last.arg > 0
    /\ last.arg < MaxBlock
    /\ inst.pgs_size > DescSize

\* ------------------------------------------------------------------------
\* C10: after every bb_alloc_page_cached and bb_free_page_cached call,
\* free_pages_cache_size is the number of pages linked in the cache list.
\* ------------------------------------------------------------------------
C10_CacheCounter ==
    (~panicked /\ last.op \in {"alloc_cached", "free_cached"}) =>
        inst.free_pages_cache_size = Len(inst.free_pages_cache_list)

\* ------------------------------------------------------------------------
\* C11: between calls 0 <= free_pages_cache_size <= HIGH and the cache holds
\* at most HIGH single pages.
\* ------------------------------------------------------------------------
C11_CacheBounds ==
    ~panicked =>
        /\ 0 <= inst.free_pages_cache_size
        /\ inst.free_pages_cache_size <= HIGH_WATERMARK_LEVEL
        /\ Len(inst.free_pages_cache_list) <= HIGH_WATERMARK_LEVEL

\* ------------------------------------------------------------------------
\* C12: every bb_alloc_page_cached returns a page descriptor that is an
\* allocated order-0 head (FREE clear, ROOT set) no other caller holds.
\* ------------------------------------------------------------------------
C12_CachedAllocValid ==
    (~panicked /\ last.op = "alloc_cached") =>
        /\ last.ret \in Pages(inst)
        /\ FREE_PAGE \notin inst.flags[last.ret]
        /\ ROOT_PAGE \in inst.flags[last.ret]
        /\ inst.order[last.ret] = 0
        /\ \A i \in 1 .. (Len(taken) - 1) : taken[i] # last.ret

\* ------------------------------------------------------------------------
\* C13: cached space is free_pages_cache_size * PAGE_SIZE, total space is
\* size * PAGE_SIZE, free space is the sum of nr_free[k] * 2^k * PAGE_SIZE
\* (all counted in pages here).
\* ------------------------------------------------------------------------
RECURSIVE NrFreePages(_, _)
NrFreePages(I, k) ==
    IF k >= MAX_ORDER THEN 0 ELSE I.nr_free[k] * Pow2(k) + NrFreePages(I, k + 1)

C13_Introspection ==
    ~panicked =>
        /\ buddy_system_get_cached_space(inst) = inst.free_pages_cache_size
        /\ buddy_system_get_total_space(inst) = inst.size
        /\ buddy_system_get_free_space(inst) = NrFreePages(inst, 0)

\* ------------------------------------------------------------------------
\* Vocabulary of the scheduler's properties
\* ------------------------------------------------------------------------
\* A pick has just returned rq.ret to the caller, curr being the task that
\* was running when it was called.
Picked == rq.pc = "picked" /\ ~rq.panic

NTasks == Len(rq.queue)

Linked == 1 .. NTasks

Running(t) == rq.task[t].state = TASK_RUNNING

\* The task k places after curr in the ring of the queue.
AfterCurr(k) == rq.queue[((IndexOf(rq.queue, rq.curr) - 1 + k) % NTasks) + 1]

\* C14: whatever the policy, on a queue of two or more tasks the task
\* returned by a pick is TASK_RUNNING.
C14_OnlyRunning ==
    (Picked /\ NTasks >= 2) => Running(rq.ret)

\* C15: under RR, on a queue of two or more tasks with a RUNNING task other
\* than curr, the pick returns the first RUNNING task met after curr in the
\* circular order of the queue; when all the tasks are RUNNING that is the
\* successor of curr, so that successive picks go round the queue.
C15_RRRotation ==
    (rq.pc = "picked" /\ rq.policy = "RR" /\ NTasks >= 2
        /\ \E t \in Linked \ {rq.curr} : Running(t)) =>
        /\ ~rq.panic
        /\ \E k \in 1 .. (NTasks - 1) :
            /\ rq.ret = AfterCurr(k)
            /\ Running(rq.ret)
            /\ \A j \in 1 .. (k - 1) : ~Running(AfterCurr(j))
        /\ (\A t \in Linked : Running(t)) => rq.ret = AfterCurr(1)

\* A pick that went past the end of the queue and over a sleeping task.
C15_Witness ==
    /\ Picked /\ rq.policy = "RR" /\ NTasks = 3
    /\ rq.curr = rq.queue[2]
    /\ ~Running(rq.queue[3])
    /\ rq.ret = rq.queue[1]

Vruntime(t) == rq.task[t].se.vruntime

\* C16: under CFS, on a queue of two or more tasks, the task returned is
\* RUNNING and no RUNNING task, curr included, has a smaller vruntime. It
\* is stated here for the queues whose tasks are all RUNNING.
C16_CfsMinVruntime ==
    (Picked /\ rq.policy = "CFS" /\ NTasks >= 2
        /\ \A t \in Linked : Running(t)) =>
        /\ Running(rq.ret)
        /\ \A t \in Linked : ~ULess(Vruntime(t), Vruntime(rq.ret))

SumExec(t) == rq.task[t].se.sum_exec_runtime

\* C17: in a CFS run of aperiodic default-weight tasks, all RUNNING, that
\* start from zero and run for slices of at most MaxSlice ticks, after every
\* pick the largest and the smallest sum_exec_runtime differ by at most
\* MaxSlice.
C17_CfsSpread ==
    (Picked /\ rq.policy = "CFS") =>
        \A t, u \in Linked : SumExec(t) - SumExec(u) <= MaxSlice

\* A step that is one call of scheduler_pick_next_task.
PickStep == rq.pc = "run" /\ rq'.pc = "picked"

\* The periodic tasks of the run queue that are past their analysis.
RealTime(R) ==
    {t \in 1 .. Len(R.queue) :
        R.task[t].se.is_periodic /\ ~R.task[t].se.is_under_analysis}

\* The key RM and EDF order the tasks by.
Key(R, t) ==
    IF R.policy = "RM" THEN R.task[t].se.next_period ELSE R.task[t].se.deadline

\* The order of two time_t values, which are unsigned words.
Before(a, b) == (a >= 0 /\ b < 0) \/ ((a >= 0) = (b >= 0) /\ a < b)

\* Under RM or EDF there are periodic tasks past their analysis, none of
\* them has executed set, and their keys are pairwise distinct.
C18_Case(R) ==
    /\ R.policy \in {"RM", "EDF"}
    /\ RealTime(R) # {}
    /\ \A t \in RealTime(R) : ~R.task[t].se.executed
    /\ \A t, u \in RealTime(R) : t # u => Key(R, t) # Key(R, u)

\* The task returned is the periodic task with the least key.
C18_Least(R, ret) ==
    /\ ret \in RealTime(R)
    /\ \A t \in RealTime(R) : ~Before(Key(R, t), Key(R, ret))

C18_AnyKeyStep == (PickStep /\ C18_Case(rq)) => C18_Least(rq, rq'.ret)

C18_Step ==
    (PickStep /\ C18_Case(rq)
        /\ \A t \in RealTime(rq) : Key(rq, t) # UINT_MAX) =>
        C18_Least(rq, rq'.ret)

Waiting(R) == {t \in RealTime(R) : ~R.task[t].se.executed}

\* (deadline - now) - sum_exec_runtime, as a signed integer.
Laxity(R, t) == (R.task[t].se.deadline - R.ticks) - R.task[t].se.sum_exec_runtime

\* The laxities are those of the tasks once the statistics of curr are
\* brought up to date, which the pick does first.
C19_Step ==
    (PickStep /\ rq.policy = "LLF" /\ Waiting(rq) # {}) =>
        /\ rq'.ret \in Waiting(rq)
        /\ \A t \in Waiting(rq) : Laxity(rq', rq'.ret) <= Laxity(rq', t)

\* C19: under LLF, among the periodic non-analysis tasks that have not
\* executed, a pick returns one whose laxity, taken as a signed number, is
\* the least: a task past its deadline comes before one with time to spare.
C19_LlfSignedLaxity == [][C19_Step]_vars

\* The linked tasks the CFS fallback is meant for: RUNNING and not periodic
\* (a periodic task under analysis counts as not periodic).
Fallback(R) ==
    {t \in 1 .. Len(R.queue) :
        R.task[t].state = TASK_RUNNING /\ t \notin RealTime(R)}

C20_Step ==
    (PickStep /\ rq.policy \in {"EDF", "RM", "LLF"}
        /\ (\A t \in RealTime(rq) :
                rq.task[t].se.executed
                    /\ Before(rq.ticks, rq.task[t].se.next_period))
        /\ (\E t \in Fallback(rq) : ~rq.task[t].se.is_periodic)) =>
        /\ rq'.ret \in Fallback(rq)
        /\ \A t \in Fallback(rq) :
            ~Before(rq'.task[t].se.vruntime, rq'.task[rq'.ret].se.vruntime)

\* C20: under EDF, RM and LLF, when every periodic non-analysis task has
\* executed set and its next period still ahead, and a RUNNING aperiodic task
\* is linked, a pick returns a RUNNING non-periodic task, one of least
\* vruntime among them, whatever curr and the order of the queue.
C20_RealTimeFallback == [][C20_Step]_vars

\* The call returned a task.
Returned == PickStep /\ ~rq'.panic

\* The run queue but for what the model adds to follow the caller.
Program(R) == [policy |-> R.policy, queue |-> R.queue, curr |-> R.curr,
               ticks |-> R.ticks, task |-> R.task]

\* C21 as stated: whatever the policy, a call that returns T sets
\* T.se.exec_start to the ticks and changes nothing else: no other field of
\* a task, no link of the queue.
C21_AnyPolicyStep ==
    Returned =>
        Program(rq') =
            [Program(rq) EXCEPT !.task[rq'.ret].se.exec_start = rq.ticks]

C21_OnlyExecStart == [][C21_AnyPolicyStep]_vars

\* The fields of a task no call changes, and the three a new period changes.
Fixed(t) ==
    <<t.state, t.se.prio, t.se.is_periodic, t.se.is_under_analysis, t.se.period>>

Periodic(t) == <<t.se.executed, t.se.deadline, t.se.next_period>>

Counters(t) == <<t.se.exec_runtime, t.se.sum_exec_runtime, t.se.vruntime>>

\* The counters of curr after its statistics are brought up to date, for a
\* task of the default weight.
Accounted(R) ==
    LET t     == R.task[R.curr]
        delta == R.ticks - t.se.exec_start
    IN  <<delta, t.se.sum_exec_runtime + delta,
          IF t.se.is_periodic THEN t.se.vruntime ELSE t.se.vruntime + delta>>

C21_Step ==
    Returned =>
        /\ rq'.task[rq'.ret].se.exec_start = rq.ticks
        /\ rq'.queue = rq.queue /\ rq'.curr = rq.curr
        /\ rq'.ticks = rq.ticks /\ rq'.policy = rq.policy
        /\ \A t \in Linked :
            /\ Fixed(rq'.task[t]) = Fixed(rq.task[t])
            /\ t # rq'.ret => rq'.task[t].se.exec_start = rq.task[t].se.exec_start
            /\ t # rq.curr => Counters(rq'.task[t]) = Counters(rq.task[t])
            /\ \/ Periodic(rq'.task[t]) = Periodic(rq.task[t])
               \/ /\ rq.policy \in {"EDF", "RM", "LLF"}
                  /\ t \in RealTime(rq)
                  /\ rq.task[t].se.executed
                  /\ ~Before(rq.ticks, rq.task[t].se.next_period)
                  /\ Periodic(rq'.task[t]) =
                        <<FALSE, rq.task[t].se.deadline + rq.task[t].se.period,
                          rq.task[t].se.next_period + rq.task[t].se.period>>
        /\ rq.policy \in {"RR", "PRIORITY"} =>
            Counters(rq'.task[rq.curr]) = Counters(rq.task[rq.curr])
        /\ (rq.policy \notin {"RR", "PRIORITY"}
                /\ rq.task[rq.curr].se.prio = DEFAULT_PRIO) =>
            Counters(rq'.task[rq.curr]) = Accounted(rq)

\* C21, amended: a call that returns T sets T.se.exec_start to the ticks;
\* under RR and Priority that is its only change; under the other policies
\* it first brings exec_runtime, sum_exec_runtime and, for a task that is
\* not periodic, vruntime of curr up to date, and under EDF, RM and LLF it
\* starts the new period of every executed periodic task whose next_period
\* has come. Nothing else changes, and the queue, curr and the ticks never.
C21_PickerEffect == [][C21_Step]_vars

\* EDF has returned a task after accounting the ticks of a periodic curr
\* and starting the new period of a task.
C21_Witness ==
    /\ Picked /\ rq.policy = "EDF"
    /\ rq.task[rq.curr].se.is_periodic
    /\ rq.task[rq.curr].se.sum_exec_runtime > 0
    /\ rq.ret # rq.curr
    /\ \E t \in Linked :
        Periodic(rq.task[t]) = <<FALSE, 1 + Period0, 1 + Period0>>

\* C22: between calls of bb_alloc_pages and bb_free_pages, every descriptor
\* that is FREE and not ROOT lies strictly inside a block linked in a free
\* area, and no frame of a block handed out and not given back is FREE.
C22_FlagState ==
    ~panicked =>
        /\ \A p \in Pages(inst) :
            (FREE_PAGE \in inst.flags[p] /\ ROOT_PAGE \notin inst.flags[p]) =>
                \E b \in FreeBlocks(inst) : p \in Frames(b[1], b[2]) \ {b[1]}
        /\ \A h \in held : \A p \in Frames(h[1], h[2]) :
            FREE_PAGE \notin inst.flags[p]

Prio(t) == rq.task[t].se.prio

\* C23: under the Priority policy, on a queue of two or more tasks, the
\* task returned is RUNNING and no RUNNING task, curr included, has a
\* smaller prio. It is stated here for the queues whose tasks are all
\* RUNNING.
C23_PriorityMin ==
    (Picked /\ rq.policy = "PRIORITY" /\ NTasks >= 2
        /\ \A t \in Linked : Running(t)) =>
        /\ Running(rq.ret)
        /\ \A t \in Linked : Prio(rq.ret) <= Prio(t)

\* The periodic tasks past their analysis whose new period has come: they
\* have executed set and next_period <= now.
Due(R) ==
    {t \in RealTime(R) :
        R.task[t].se.executed /\ ~Before(R.ticks, R.task[t].se.next_period)}

\* The task at its new period: executed cleared, deadline and next_period
\* one period later.
Rolled(R, t) ==
    <<FALSE, R.task[t].se.deadline + R.task[t].se.period,
      R.task[t].se.next_period + R.task[t].se.period>>

C24_SameCallStep ==
    (PickStep /\ rq.policy = "EDF") =>
        \A t \in Due(rq) :
            /\ Periodic(rq'.task[t]) = Rolled(rq, t)
            /\ RealTime(rq) = {t} => (~rq'.panic /\ rq'.ret = t)

\* C24 as stated: under EDF a periodic non-analysis task T with executed
\* set and next_period <= now has executed cleared and its deadline and
\* next_period advanced by one period, once, and is a candidate in that same
\* call: when T is the only periodic task the call returns T.
C24_RolloverSameCall == [][C24_SameCallStep]_vars

C24_Step ==
    (PickStep /\ rq.policy = "EDF") =>
        \A t \in Due(rq) :
            /\ Periodic(rq'.task[t]) = Rolled(rq, t)
            /\ (RealTime(rq) = {t} /\ NTasks >= 2 /\ rq.queue[1] # t) =>
                (~rq'.panic /\ rq'.ret # t)

\* C24, amended: the new period is started as stated, once, but T is not
\* compared in the call that starts it: when T is the only periodic task
\* that call falls back to CFS, whose walk skips periodic tasks, and on a
\* queue of two or more tasks that does not begin with T another task is
\* returned. T is a candidate from the next call on.
C24_Rollover == [][C24_Step]_vars

\* EDF has started the new period of the only periodic task, the second of
\* the queue, and has returned the aperiodic task before it.
C24_Witness ==
    /\ Picked /\ rq.policy = "EDF" /\ NTasks = 2
    /\ RealTime(rq) = {2}
    /\ Periodic(rq.task[2]) = <<FALSE, 1 + Period0, 1 + Period0>>
    /\ rq.ret = 1

\* ---- Ties ----
\* The tasks a pick compares, in the order it meets them. The pickers of the
\* periodic policies go through the queue; CFS and Priority start with the
\* first task of the queue as the one to beat and then go round the ring
\* from the task after curr, up to the task before it.
Visited(R) ==
    IF R.policy \in {"CFS", "PRIORITY"}
    THEN LET n == Len(R.queue)
             c == IndexOf(R.queue, R.curr)
         IN  <<R.queue[1]>> \o [k \in 1 .. (n - 1) |-> R.queue[((c - 1 + k) % n) + 1]]
    ELSE R.queue

\* The key a policy compares, read once the statistics of curr are up to
\* date (R1 is the run queue as the call leaves it).
TieKey(R1, t) ==
    CASE R1.policy = "PRIORITY" -> R1.task[t].se.prio
      [] R1.policy = "CFS"      -> R1.task[t].se.vruntime
      [] R1.policy = "RM"       -> R1.task[t].se.next_period
      [] R1.policy = "LLF"      -> Laxity(R1, t)
      [] OTHER                  -> R1.task[t].se.deadline

\* The places of Visited where the task met is compared: R is the run queue
\* as the call finds it. Under EDF, RM and LLF these are the periodic tasks
\* past their analysis that have not executed, but for a key of UINT_MAX.
Eligible(R, R1) ==
    LET V == Visited(R)
    IN  {i \in DOMAIN V :
            LET t == R.task[V[i]]
            IN  CASE R.policy \in {"CFS", "PRIORITY"} ->
                        i = 1 \/ t.state = TASK_RUNNING
                  [] R.policy = "AEDF" -> t.se.deadline # 0
                  [] OTHER ->
                        /\ t.se.is_periodic /\ ~t.se.is_under_analysis
                        /\ ~t.se.executed
                        /\ TieKey(R1, V[i]) # UINT_MAX}

\* The places of the eligible tasks of least key.
Least(R, R1) ==
    LET V == Visited(R)
        E == Eligible(R, R1)
        K == [i \in E |-> TieKey(R1, V[i])]
    IN  {i \in E : \A j \in E : ~Before(K[j], K[i])}

FirstOf(S) == CHOOSE i \in S : \A j \in S : i <= j

LastOf(S) == CHOOSE i \in S : \A j \in S : j <= i

\* A call on a queue of two or more tasks.
TieCase == PickStep /\ Len(rq.queue) >= 2

C25_AsStatedStep ==
    TieCase =>
        LET M == Least(rq, rq')
        IN  M # {} =>
                rq'.ret =
                    Visited(rq)[IF rq.policy \in {"AEDF", "EDF", "LLF", "PRIORITY"}
                                THEN LastOf(M) ELSE FirstOf(M)]

C25_Step ==
    TieCase =>
        LET M == Least(rq, rq')
        IN  M # {} =>
                rq'.ret =
                    Visited(rq)[IF rq.policy \in {"AEDF", "PRIORITY"}
                                THEN LastOf(M) ELSE FirstOf(M)]

TopHeads(I) == {p \in Pages(I) : p % MaxBlock = 0 /\ p + MaxBlock <= I.size}

\* C26: once every block bb_alloc_pages returned has been given back with
\* bb_free_pages, the free lists hold the blocks of the top order the
\* instance is made of, each once, and nothing in the lower orders; each of
\* these heads is a FREE ROOT of the top order and no other descriptor is
\* ROOT.
C26_ListsRestored ==
    (~panicked /\ held = {}) =>
        /\ Range(inst.free_list[MAX_ORDER - 1]) = TopHeads(inst)
        /\ Len(inst.free_list[MAX_ORDER - 1]) = inst.size \div MaxBlock
        /\ \A k \in 0 .. (MAX_ORDER - 2) : inst.free_list[k] = <<>>
        /\ \A p \in Pages(inst) :
            IF p \in TopHeads(inst)
            THEN IsFreeRoot(inst, p, MAX_ORDER - 1)
            ELSE ROOT_PAGE \notin inst.flags[p]

\* Blocks split off a block of the top order have all been given back and
\* merged, the counters by then two short of the lists.
C26_Witness ==
    /\ ~panicked /\ held = {}
    /\ last.op = "free"
    /\ Deficit(inst, 0) >= 2

\* C27: under RR, on a run queue with a RUNNING task linked, a pick returns
\* a task and the assertion on its result does not fail, also when curr is
\* the only RUNNING task and others are linked.
C27_RRNoPanic ==
    (rq.pc = "picked" /\ rq.policy = "RR" /\ \E t \in Linked : Running(t)) =>
        /\ ~rq.panic
        /\ rq.ret \in Linked

====
